---- MODULE Spec2Model ----
(***************************************************************************)
(* A model of two easegress filters:                                       *)
(*   pkg/filters/bridge/bridge.go  (Bridge: Init/reload, InjectMuxMapper,  *)
(*                                  Handle)                                *)
(*   pkg/filters/mock/mock.go      (Mock: Init/reload, Handle, match, mock)*)
(* Each filter has its own specification (SpecBridge, SpecMock, SpecDelay);*)
(* the variables of the other filter stay at their constructed values.     *)
(***************************************************************************)
EXTENDS Integers, Sequences, FiniteSets, TLC

VARIABLES
    \* ---- Bridge (bridge.go:70-73) and the request it last handled ----
    bInited,        \* Bridge.Init has run (b.spec is set)
    destinations,   \* b.spec.Destinations
    reloadLogged,   \* the last reload logged "not any destination defined"
    muxInjected,    \* InjectMuxMapper has run
    muxHandlers,    \* ids for which b.muxMapper.GetHandler reports exists = true
    bCalled,        \* a Handle call has been made
    bHeaderIn,      \* request header when Handle was entered
    bHeader,        \* request header when Handle was left (returned or panicked)
    bStatusIn,      \* response status code when Handle was entered
    bStatus,        \* response status code when Handle was left
    bResult,        \* [returned |-> BOOLEAN, value |-> STRING] of that call
    bPanicked,      \* that call panicked
    bCalls,         \* calls that Handle made on its collaborators, in order
    bDispatchHeader,\* request header at the moment handler.Handle(ctx) was called
    \* ---- Mock (mock.go:56-58), the request in flight and its response ----
    mInited,        \* Mock.Init has run (m.spec is set)
    rules,          \* m.spec.Rules, each with its parsed delay
    mpc,            \* "idle" | "waiting" (in the select of Mock.mock) | "done"
    path,           \* request path of the handled request
    header,         \* request header of the handled request
    iterOrder,      \* per rule, the order in which range visited Match.Headers
    applied,        \* index of the rule Mock.mock was called with, 0 for none
    resp,           \* the response: StatusCode, Header, Body
    mResult,        \* [returned |-> BOOLEAN, value |-> STRING] of Mock.Handle
    debugNote,      \* "request cancelled in the middle of delay mocking" logged
    now,            \* the clock
    ctxDone,        \* the request's context is cancelled (Done() is closed)
    cancelledAt,    \* clock value at which it was cancelled, -1 before
    waitStart,      \* clock value at which the select was entered, -1 before
    waitEnd,        \* clock value at which the select was left, -1 before
    wokenBy         \* "none" | "timer" | "cancel": the select case taken

bvars == <<bInited, destinations, reloadLogged, muxInjected, muxHandlers, bCalled,
           bHeaderIn, bHeader, bStatusIn, bStatus, bResult, bPanicked, bCalls,
           bDispatchHeader>>

mvars == <<mInited, rules, mpc, path, header, iterOrder, applied, resp, mResult,
           debugNote, now, ctxDone, cancelledAt, waitStart, waitEnd, wokenBy>>

vars == <<bvars, mvars>>

\* ------------------------------------------------------------------------
\* Bounds of the model
\* ------------------------------------------------------------------------
MaxDests == 2
MaxValues == 2

\* All sequences over S of length 0..n
RECURSIVE SeqsUpTo(_, _)
SeqsUpTo(S, n) ==
    IF n = 0 THEN {<<>>}
    ELSE LET shorter == SeqsUpTo(S, n - 1)
         IN  shorter \cup {Append(s, x) : s \in {t \in shorter : Len(t) = n - 1}, x \in S}

\* ========================================================================
\* Bridge
\* ========================================================================
resultDestinationNotFound == "destinationNotFound"
resultInvokeDestinationFailed == "invokeDestinationFailed"
bridgeDestHeader == "X-Easegress-Bridge-Dest"
StatusServiceUnavailable == 503

\* Destination identifiers a configuration may name (non-empty, no blanks:
\* the jsonschema pattern of Spec.Destinations) and signal values a request
\* may carry (any string, the empty one included).
DestIds == {"a", "b"}
SignalValues == {"", "a", "b", "c"}
otherHeader == "X-Other"
BridgeHeaderNames == {bridgeDestHeader, otherHeader}

\* A request header: name -> list of values, <<>> when the name is absent.
BridgeHeaders ==
    {[n \in BridgeHeaderNames |->
        IF n = bridgeDestHeader THEN sig ELSE oth] :
        sig \in SeqsUpTo(SignalValues, MaxValues), oth \in {<<>>, <<"o">>}}

\* Request.Header().Get(key): the first value, "" when there is none.
HeaderGet(h, key) == IF Len(h[key]) = 0 THEN "" ELSE h[key][1]

\* Request.Header().Del(key): every value of the name is removed.
HeaderDel(h, key) == [h EXCEPT ![key] = <<>>]

\* The name is present in the header (with whatever values, "" included).
HeaderHas(h, key) == Len(h[key]) > 0

Call(op, arg) == [op |-> op, arg |-> arg]
NoResult == [returned |-> FALSE, value |-> ""]
Returned(v) == [returned |-> TRUE, value |-> v]

\* for _, d := range b.spec.Destinations { if d == dest { ... break } }
ScanFinds(dests, dest) == \E i \in 1..Len(dests) : dests[i] = dest

\* if len(b.spec.Destinations) <= 0 { panic(...) }
NoDestination(dests) == Len(dests) <= 0

\* faulty variant of DefaultDest: the last destination instead of the first
DefaultDestLast(dests) == dests[Len(dests)]
\* dest = b.spec.Destinations[0]
DefaultDest(dests) == dests[1]

\* faulty variant of StripSignal: the header is left on the request
StripSignalKeep(h) == h
\* r.Header().Del(bridgeDestHeader)
StripSignal(h) == HeaderDel(h, bridgeDestHeader)

\* faulty variant of BridgePanic: the empty list is answered like a
\* destination that was not found
BridgeSoftFail(h, status) ==
    [header |-> h, status |-> StatusServiceUnavailable,
     result |-> Returned(resultDestinationNotFound), panicked |-> FALSE,
     calls |-> <<Call("SetStatusCode", "503")>>, dispatchHeader |-> h]
\* panic("not any destination defined"): Handle is left without an outcome
\* and without having touched the request, the response or the registry.
BridgePanic(h, status) ==
    [header |-> h, status |-> status, result |-> NoResult, panicked |-> TRUE,
     calls |-> <<>>, dispatchHeader |-> h]

\* Bridge.Handle past the panic check: the signal is read, a destination is
\* chosen, the registry is asked and the handler is called.
BridgeRoute(dests, handlers, h, status) ==
    LET dest0 == HeaderGet(h, bridgeDestHeader)
        useDefault == dest0 = ""
        dest == IF useDefault THEN DefaultDest(dests) ELSE dest0
        found == IF useDefault THEN TRUE ELSE ScanFinds(dests, dest0)
        h1 == IF ~useDefault /\ found THEN StripSignal(h) ELSE h
        c1 == <<Call("Header.Get", bridgeDestHeader)>>
              \o (IF ~useDefault /\ found
                  THEN <<Call("Header.Del", bridgeDestHeader)>> ELSE <<>>)
    IN  IF ~found
        THEN [header |-> h1, status |-> StatusServiceUnavailable,
              result |-> Returned(resultDestinationNotFound), panicked |-> FALSE,
              calls |-> Append(c1, Call("SetStatusCode", "503")),
              dispatchHeader |-> h1]
        ELSE IF dest \notin handlers
        THEN [header |-> h1, status |-> StatusServiceUnavailable,
              result |-> Returned(resultDestinationNotFound), panicked |-> FALSE,
              calls |-> c1 \o <<Call("GetHandler", dest), Call("SetStatusCode", "503")>>,
              dispatchHeader |-> h1]
        ELSE [header |-> h1, status |-> status,
              result |-> Returned(""), panicked |-> FALSE,
              calls |-> c1 \o <<Call("GetHandler", dest), Call("handler.Handle", dest)>>,
              dispatchHeader |-> h1]

\* Bridge.Handle as a function of the configuration, the registry and the
\* request: what it leaves behind.
BridgeHandle(dests, handlers, h, status) ==
    IF NoDestination(dests) THEN BridgePanic(h, status)
    ELSE BridgeRoute(dests, handlers, h, status)

\* ---- the state after construction: &Bridge{} and &Mock{} ----
EmptyHeader == [n \in BridgeHeaderNames |-> <<>>]
StatusIn == {200, 404}

BridgeNew ==
    /\ bInited = FALSE
    /\ destinations = <<>>
    /\ reloadLogged = FALSE
    /\ muxInjected = FALSE
    /\ muxHandlers = {}
    /\ bCalled = FALSE
    /\ bHeaderIn = EmptyHeader
    /\ bHeader = EmptyHeader
    /\ bStatusIn = 200
    /\ bStatus = 200
    /\ bResult = NoResult
    /\ bPanicked = FALSE
    /\ bCalls = <<>>
    /\ bDispatchHeader = EmptyHeader

\* Bridge.Init (and Inherit, which closes the previous generation and calls
\* Init): b.spec = spec; reload only logs an empty destination list. The
\* request the model follows sees the generation it started with.
BridgeInit ==
    \E d \in SeqsUpTo(DestIds, MaxDests) :
        /\ ~bCalled
        /\ bInited' = TRUE
        /\ destinations' = d
        /\ reloadLogged' = (Len(d) <= 0)
        /\ UNCHANGED <<muxInjected, muxHandlers, bCalled, bHeaderIn, bHeader,
                       bStatusIn, bStatus, bResult, bPanicked, bCalls,
                       bDispatchHeader>>
        /\ UNCHANGED mvars

\* Bridge.InjectMuxMapper: b.muxMapper = mapper
InjectMuxMapper ==
    \E m \in SUBSET (DestIds \cup {"c"}) :
        /\ ~bCalled
        /\ muxInjected' = TRUE
        /\ muxHandlers' = m
        /\ UNCHANGED <<bInited, destinations, reloadLogged, bCalled, bHeaderIn,
                       bHeader, bStatusIn, bStatus, bResult, bPanicked, bCalls,
                       bDispatchHeader>>
        /\ UNCHANGED mvars

\* Bridge.Handle on the request the model follows (the pipeline calls it only
\* on an initialized filter whose mux mapper was injected).
BridgeHandleRequest ==
    /\ bInited
    /\ muxInjected
    /\ ~bCalled
    /\ \E h \in BridgeHeaders, st \in StatusIn :
        LET out == BridgeHandle(destinations, muxHandlers, h, st)
        IN  /\ bCalled' = TRUE
            /\ bHeaderIn' = h
            /\ bStatusIn' = st
            /\ bHeader' = out.header
            /\ bStatus' = out.status
            /\ bResult' = out.result
            /\ bPanicked' = out.panicked
            /\ bCalls' = out.calls
            /\ bDispatchHeader' = out.dispatchHeader
    /\ UNCHANGED <<bInited, destinations, reloadLogged, muxInjected, muxHandlers>>
    /\ UNCHANGED mvars

NextBridge == BridgeInit \/ InjectMuxMapper \/ BridgeHandleRequest

\* ========================================================================
\* Mock
\* ========================================================================
resultMocked == "mocked"
MaxRules == 2
MaxTime == 3

\* Paths and header values are strings whose prefixes matter: they are
\* modelled as sequences of characters, "" being <<>>.
HasPrefix(s, p) == Len(p) <= Len(s) /\ SubSeq(s, 1, Len(p)) = p

StrEmpty == <<>>
PathA == <<"/", "a">>
PathAB == <<"/", "a", "/", "b">>
PathB == <<"/", "b">>
ValV == <<"v">>
ValVW == <<"v", "w">>
ValW == <<"w">>

MockHeaderNames == {"X-A", "X-B"}

\* urlrule.StringMatch: Exact, Prefix and Empty (no RegEx is configured in
\* the modelled configurations, so re == nil and Match ends in false).
StringMatch(exact, prefix, empty) == [Exact |-> exact, Prefix |-> prefix, Empty |-> empty]

\* StringMatch.Match(value)
StringMatchMatch(sm, v) ==
    \/ sm.Empty /\ v = StrEmpty
    \/ sm.Exact # StrEmpty /\ v = sm.Exact
    \/ sm.Prefix # StrEmpty /\ HasPrefix(v, sm.Prefix)

\* StringMatch.Validate: Empty excludes the patterns; without Empty at least
\* one pattern is set.
StringMatchValid(sm) ==
    IF sm.Empty THEN sm.Exact = StrEmpty /\ sm.Prefix = StrEmpty
    ELSE sm.Exact # StrEmpty \/ sm.Prefix # StrEmpty

\* header.Values(key)
HeaderValues(h, key) == h[key]

\* faulty variant of matchPath: pathPrefix is not looked at
matchPathExactOnly(rule, p) ==
    IF rule.Match.Path = StrEmpty /\ rule.Match.PathPrefix = StrEmpty THEN TRUE
    ELSE rule.Match.Path = p
\* matchPath (closure of Mock.match)
matchPath(rule, p) ==
    IF rule.Match.Path = StrEmpty /\ rule.Match.PathPrefix = StrEmpty THEN TRUE
    ELSE IF rule.Match.Path = p THEN TRUE
    ELSE IF rule.Match.PathPrefix = StrEmpty THEN FALSE
    ELSE HasPrefix(p, rule.Match.PathPrefix)

\* for _, v := range values { if rule.Match(v) { return true } }; return false
RECURSIVE anyValueMatches(_, _, _)
anyValueMatches(sm, values, i) ==
    IF i > Len(values) THEN FALSE
    ELSE IF StringMatchMatch(sm, values[i]) THEN TRUE
    ELSE anyValueMatches(sm, values, i + 1)

\* faulty variant of matchOneHeader: without "if rule.Empty { return false }"
matchOneHeaderNoEmptyCheck(h, key, sm) ==
    LET values == HeaderValues(h, key)
    IN  IF Len(values) = 0 THEN sm.Empty
        ELSE anyValueMatches(sm, values, 1)
\* matchOneHeader (closure of Mock.match)
matchOneHeader(h, key, sm) ==
    LET values == HeaderValues(h, key)
    IN  IF Len(values) = 0 THEN sm.Empty
        ELSE IF sm.Empty THEN FALSE
        ELSE anyValueMatches(sm, values, 1)

\* the loop of matchHeader over rule.Match.Headers, visited in order ord
RECURSIVE matchHeaderLoop(_, _, _, _)
matchHeaderLoop(rule, h, ord, i) ==
    IF i > Len(ord) THEN rule.Match.MatchAllHeaders
    ELSE IF matchOneHeader(h, ord[i], rule.Match.Headers[ord[i]])
         THEN IF ~rule.Match.MatchAllHeaders THEN TRUE
              ELSE matchHeaderLoop(rule, h, ord, i + 1)
         ELSE IF rule.Match.MatchAllHeaders THEN FALSE
              ELSE matchHeaderLoop(rule, h, ord, i + 1)

\* faulty variant of matchHeader: the first header rule visited decides
matchHeaderFirstOnly(rule, h, ord) ==
    IF Len(ord) = 0 THEN TRUE
    ELSE matchOneHeader(h, ord[1], rule.Match.Headers[ord[1]])
\* matchHeader (closure of Mock.match); ord is the order in which range
\* visits the map rule.Match.Headers
matchHeader(rule, h, ord) ==
    IF Cardinality(DOMAIN rule.Match.Headers) = 0 THEN TRUE
    ELSE matchHeaderLoop(rule, h, ord, 1)

\* for _, rule := range m.spec.Rules { if matchPath(rule) && matchHeader(rule)
\* { return rule } }; return nil -- as the index of the rule, 0 for nil
RECURSIVE matchLoop(_, _, _, _, _)
matchLoop(rs, p, h, ords, i) ==
    IF i > Len(rs) THEN 0
    ELSE IF matchPath(rs[i], p) /\ matchHeader(rs[i], h, ords[i]) THEN i
    ELSE matchLoop(rs, p, h, ords, i + 1)

\* faulty variant of the loop: the rules are visited from the last one
RECURSIVE matchLoopLast(_, _, _, _, _)
matchLoopLast(rs, p, h, ords, i) ==
    IF i < 1 THEN 0
    ELSE IF matchPath(rs[i], p) /\ matchHeader(rs[i], h, ords[i]) THEN i
    ELSE matchLoopLast(rs, p, h, ords, i - 1)

matchLast(rs, p, h, ords) == matchLoopLast(rs, p, h, ords, Len(rs))
\* Mock.match
match(rs, p, h, ords) == matchLoop(rs, p, h, ords, 1)

\* time.ParseDuration on the texts the modelled configurations use; the
\* clock counts seconds. An invalid text yields 0 (the error is dropped).
ParseDuration(text) ==
    CASE text = "0s" -> 0
      [] text = "1s" -> 1
      [] text = "2s" -> 2
      [] text = "-1s" -> -1
      [] OTHER -> 0

\* Mock.reload: r.delay of every rule whose Delay is not ""
reload(rs) ==
    [i \in 1..Len(rs) |->
        IF rs[i].Delay = "" THEN rs[i]
        ELSE [rs[i] EXCEPT !.delay = ParseDuration(rs[i].Delay)]]

\* The response a pipeline hands to the filter.
NewResponse == [StatusCode |-> 200, Header |-> <<>>, Body |-> StrEmpty]

\* w.Header().Set(key, value) for every entry of rule.Headers
SetHeaders(respHeader, ruleHeaders) ==
    [k \in (DOMAIN respHeader) \cup (DOMAIN ruleHeaders) |->
        IF k \in DOMAIN ruleHeaders THEN ruleHeaders[k] ELSE respHeader[k]]

\* faulty variant of mockWrite: the payload is not set
mockWriteNoBody(w, rule) ==
    [StatusCode |-> rule.Code,
     Header |-> SetHeaders(w.Header, rule.Headers),
     Body |-> w.Body]
\* The writes of Mock.mock before its delay: status code, headers, payload.
mockWrite(w, rule) ==
    [StatusCode |-> rule.Code,
     Header |-> SetHeaders(w.Header, rule.Headers),
     Body |-> rule.Body]

\* ---- configurations and requests the model draws from ----
Rule(p, prefix, hdrs, all, code, rhdrs, body, delayText) ==
    [Match |-> [Path |-> p, PathPrefix |-> prefix, Headers |-> hdrs,
                MatchAllHeaders |-> all],
     Code |-> code, Headers |-> rhdrs, Body |-> body, Delay |-> delayText,
     delay |-> 0]

StringMatches ==
    {sm \in {StringMatch(e, p, b) : e \in {StrEmpty, ValV}, p \in {StrEmpty, ValV},
                                    b \in BOOLEAN} :
        StringMatchValid(sm) /\ ~(sm.Exact # StrEmpty /\ sm.Prefix # StrEmpty)}

HeaderRuleMaps == UNION {[K -> StringMatches] : K \in SUBSET MockHeaderNames}

MockRespHeader == [k \in {"X-Mock"} |-> ValV]
BodyHi == <<"h", "i">>

\* every single rule: all path criteria, all header criteria
RichRules ==
    {Rule(p, prefix, hdrs, all, 201, MockRespHeader, BodyHi, "") :
        p \in {StrEmpty, PathA, PathB}, prefix \in {StrEmpty, PathA},
        hdrs \in HeaderRuleMaps, all \in BOOLEAN}

\* rules that rule lists are built from
CoreRules ==
    {Rule(p, prefix, hdrs, FALSE, code, MockRespHeader, BodyHi, "") :
        p \in {StrEmpty, PathA}, prefix \in {StrEmpty, PathA},
        hdrs \in {<<>>, [k \in {"X-A"} |-> StringMatch(ValV, StrEmpty, FALSE)]},
        code \in {201, 404}}

MatchRuleLists == SeqsUpTo(CoreRules, MaxRules) \cup {<<r>> : r \in RichRules}

\* rules with a delay: one that every request matches, per delay text, and
\* one that only /b matches
DelayTexts == {"", "x", "0s", "-1s", "1s", "2s"}
DelayRules ==
    {Rule(StrEmpty, StrEmpty, <<>>, FALSE, 201, MockRespHeader, BodyHi, d) :
        d \in DelayTexts}
    \cup {Rule(PathB, StrEmpty, <<>>, FALSE, 404, <<>>, StrEmpty, "2s")}

DelayRuleLists == SeqsUpTo(DelayRules, MaxRules)

ValueLists == {<<>>, <<StrEmpty>>, <<ValV>>, <<ValW>>, <<ValW, ValVW>>}
MockHeaders == [MockHeaderNames -> ValueLists]
MockPaths == {PathA, PathAB, PathB}
MatchRequests == {[path |-> p, header |-> h] : p \in MockPaths, h \in MockHeaders}
DelayRequests ==
    {[path |-> p, header |-> [n \in MockHeaderNames |-> <<>>]] : p \in {PathA, PathB}}

\* the orders in which range may visit a map with key set K
OrdersOf(K) ==
    {s \in [1..Cardinality(K) -> K] : \A k \in K : \E i \in 1..Cardinality(K) : s[i] = k}

\* one visiting order per rule of the list
RuleOrders(rs) ==
    {os \in [1..Len(rs) -> UNION {OrdersOf(K) : K \in SUBSET MockHeaderNames}] :
        \A i \in 1..Len(rs) : os[i] \in OrdersOf(DOMAIN rs[i].Match.Headers)}

MockNew ==
    /\ mInited = FALSE
    /\ rules = <<>>
    /\ mpc = "idle"
    /\ path = StrEmpty
    /\ header = [n \in MockHeaderNames |-> <<>>]
    /\ iterOrder = <<>>
    /\ applied = 0
    /\ resp = NewResponse
    /\ mResult = NoResult
    /\ debugNote = FALSE
    /\ now = 0
    /\ ctxDone = FALSE
    /\ cancelledAt = -1
    /\ waitStart = -1
    /\ waitEnd = -1
    /\ wokenBy = "none"

\* Mock.Init (and Inherit): m.spec = spec; m.reload()
MockInitFrom(lists) ==
    /\ mpc = "idle"
    /\ \E rs \in lists :
        /\ mInited' = TRUE
        /\ rules' = reload(rs)
    /\ UNCHANGED <<mpc, path, header, iterOrder, applied, resp, mResult, debugNote,
                   now, ctxDone, cancelledAt, waitStart, waitEnd, wokenBy>>
    /\ UNCHANGED bvars

\* Mock.Handle up to its return or, for a rule with delay > 0, up to the
\* select of Mock.mock: match, then the writes of mock.
MockHandleFrom(requests) ==
    /\ mInited
    /\ mpc = "idle"
    /\ \E rq \in requests :
       \E ords \in RuleOrders(rules) :
        LET i == match(rules, rq.path, rq.header, ords)
        IN  /\ path' = rq.path
            /\ header' = rq.header
            /\ iterOrder' = ords
            /\ applied' = i
            /\ IF i = 0
               THEN /\ resp' = resp
                    /\ mResult' = Returned("")
                    /\ mpc' = "done"
                    /\ waitStart' = waitStart
               ELSE /\ resp' = mockWrite(resp, rules[i])
                    /\ IF rules[i].delay <= 0
                       THEN /\ mResult' = Returned(resultMocked)
                            /\ mpc' = "done"
                            /\ waitStart' = waitStart
                       ELSE /\ mResult' = mResult
                            /\ mpc' = "waiting"
                            /\ waitStart' = now
    /\ UNCHANGED <<mInited, rules, debugNote, now, ctxDone, cancelledAt, waitEnd,
                   wokenBy>>
    /\ UNCHANGED bvars

\* the deadline of time.After(rule.delay), armed when the select is entered
Deadline == waitStart + rules[applied].delay

\* case <-httpreq.Context().Done(): the note is logged, mock and Handle return
WakeCancel ==
    /\ mpc = "waiting"
    /\ ctxDone
    /\ mpc' = "done"
    /\ wokenBy' = "cancel"
    /\ debugNote' = TRUE
    /\ waitEnd' = now
    /\ mResult' = Returned(resultMocked)
    /\ UNCHANGED <<mInited, rules, path, header, iterOrder, applied, resp, now,
                   ctxDone, cancelledAt, waitStart>>
    /\ UNCHANGED bvars

\* case <-time.After(rule.delay): mock and Handle return
WakeTimer ==
    /\ mpc = "waiting"
    /\ now >= Deadline
    /\ mpc' = "done"
    /\ wokenBy' = "timer"
    /\ waitEnd' = now
    /\ mResult' = Returned(resultMocked)
    /\ UNCHANGED <<mInited, rules, path, header, iterOrder, applied, resp, debugNote,
                   now, ctxDone, cancelledAt, waitStart>>
    /\ UNCHANGED bvars

\* the request's context is cancelled (by the client or the server)
Cancel ==
    /\ ~ctxDone
    /\ ctxDone' = TRUE
    /\ cancelledAt' = now
    /\ UNCHANGED <<mInited, rules, mpc, path, header, iterOrder, applied, resp,
                   mResult, debugNote, now, waitStart, waitEnd, wokenBy>>
    /\ UNCHANGED bvars

\* a case of the select is ready: the goroutine is woken before time passes
SelectReady == mpc = "waiting" /\ (ctxDone \/ now >= Deadline)

\* time passes
Tick ==
    /\ ~SelectReady
    /\ now < MaxTime \/ mpc = "waiting"
    /\ now' = now + 1
    /\ UNCHANGED <<mInited, rules, mpc, path, header, iterOrder, applied, resp,
                   mResult, debugNote, ctxDone, cancelledAt, waitStart, waitEnd,
                   wokenBy>>
    /\ UNCHANGED bvars

MockInit == MockInitFrom(MatchRuleLists)
MockHandle == MockHandleFrom(MatchRequests)
MockInitDelay == MockInitFrom(DelayRuleLists)
MockHandleDelay == MockHandleFrom(DelayRequests)

NextMock == MockInit \/ MockHandle
NextDelay == MockInitDelay \/ MockHandleDelay \/ WakeCancel \/ WakeTimer \/ Cancel \/ Tick

\* ========================================================================
\* Specifications
\* ========================================================================
Init == BridgeNew /\ MockNew

SpecBridge == Init /\ [][NextBridge]_vars
SpecMock == Init /\ [][NextMock]_vars
SpecDelay == Init /\ [][NextDelay]_vars

\* ========================================================================
\* Properties of Bridge.Handle (checked under SpecBridge)
\* ========================================================================
SignalIn == HeaderGet(bHeaderIn, bridgeDestHeader)
SignalPresentIn == HeaderHas(bHeaderIn, bridgeDestHeader)
Configured(id) == \E i \in 1..Len(destinations) : destinations[i] = id
CallsOf(op) == SelectSeq(bCalls, LAMBDA c : c.op = op)
Dispatched == Len(CallsOf("handler.Handle")) > 0
HandledNonEmpty == bCalled /\ Len(destinations) > 0

\* C2: whenever Handle dispatches to a handler, the request does not carry
\* the header X-Easegress-Bridge-Dest at the moment of the dispatch, whatever
\* values the request came in with (an empty value, several values).
C2_NoSignalAtDispatch ==
    (bCalled /\ Dispatched) => ~HeaderHas(bDispatchHeader, bridgeDestHeader)

\* C3: with a non-empty destination list, if the signal header is present
\* and its value (the first one, "" included) equals no configured destination, or the registry has no
\* handler for the chosen identifier, then the outcome is
\* "destinationNotFound", the status is 503 and nothing is dispatched; in the
\* first case the registry is not consulted.
C3_ChosenIn == IF SignalPresentIn THEN SignalIn ELSE destinations[1]
C3_NotFoundOutcome ==
    /\ (HandledNonEmpty /\ ((SignalPresentIn /\ ~Configured(SignalIn))
                            \/ C3_ChosenIn \notin muxHandlers))
        => /\ bResult = Returned(resultDestinationNotFound)
           /\ bStatus = 503
           /\ ~Dispatched
    /\ (HandledNonEmpty /\ SignalPresentIn /\ ~Configured(SignalIn))
        => Len(CallsOf("GetHandler")) = 0

\* C4: when the signal header is present, its value is a configured
\* destination and the registry has a handler for it, Handle removes the
\* header, asks the registry once for exactly that identifier, calls that
\* handler once, and returns "".
C4_Pre ==
    /\ HandledNonEmpty
    /\ SignalPresentIn
    /\ Configured(SignalIn)
    /\ SignalIn \in muxHandlers
C4_MatchedSignalDispatch ==
    C4_Pre =>
        /\ ~HeaderHas(bHeader, bridgeDestHeader)
        /\ ~HeaderHas(bDispatchHeader, bridgeDestHeader)
        /\ bHeader[otherHeader] = bHeaderIn[otherHeader]
        /\ CallsOf("GetHandler") = <<Call("GetHandler", SignalIn)>>
        /\ CallsOf("handler.Handle") = <<Call("handler.Handle", SignalIn)>>
        /\ bResult = Returned("")
        /\ ~bPanicked
C4_Witness == C4_Pre /\ Len(bHeaderIn[bridgeDestHeader]) = 2 /\ SignalIn = "b"

\* C5: when the request has no signal header, the chosen identifier is
\* destinations[0]: the registry is asked for it and, if it has a handler,
\* that handler is the one called; the request header is left as it came.
C5_Pre == HandledNonEmpty /\ ~SignalPresentIn
C5_DefaultIsFirst ==
    C5_Pre =>
        /\ bHeader = bHeaderIn
        /\ bDispatchHeader = bHeaderIn
        /\ CallsOf("Header.Del") = <<>>
        /\ CallsOf("GetHandler") = <<Call("GetHandler", destinations[1])>>
        /\ IF destinations[1] \in muxHandlers
           THEN /\ CallsOf("handler.Handle") = <<Call("handler.Handle", destinations[1])>>
                /\ bResult = Returned("")
           ELSE /\ ~Dispatched
                /\ bResult = Returned(resultDestinationNotFound)
C5_Witness ==
    /\ C5_Pre
    /\ Len(destinations) = 2
    /\ destinations[1] # destinations[2]
    /\ destinations[2] \in muxHandlers
    /\ Dispatched

\* C10: Init/reload installs an empty destination list and only logs it;
\* a Handle call under it panics before it reads the signal header, changes
\* the request header, sets the response status, asks the registry or
\* dispatches, and it returns no outcome.
C10_EmptyListIsFatal ==
    /\ (bInited /\ Len(destinations) = 0) => reloadLogged
    /\ (bCalled /\ Len(destinations) = 0) =>
        /\ bPanicked
        /\ ~bResult.returned
        /\ bCalls = <<>>
        /\ bHeader = bHeaderIn
        /\ bStatus = bStatusIn
    /\ (bCalled /\ Len(destinations) > 0) => (~bPanicked /\ bResult.returned)
C10_Witness ==
    /\ bCalled
    /\ Len(destinations) = 0
    /\ reloadLogged
    /\ SignalPresentIn
    /\ bPanicked

\* ========================================================================
\* Properties of Mock.match and Mock.Handle (checked under SpecMock)
\* ========================================================================
Handled == mInited /\ mpc = "done"
RuleIdx == 1..Len(rules)
HeaderRulesOf(i) == rules[i].Match.Headers
Passes(i) ==
    matchPath(rules[i], path) /\ matchHeader(rules[i], header, iterOrder[i])
Written(i) ==
    [StatusCode |-> rules[i].Code,
     Header |-> rules[i].Headers,
     Body |-> rules[i].Body]

\* C1: Handle applies exactly the first rule, in declaration order, whose
\* path test and header test both pass, and returns "mocked"; if no rule
\* passes both tests it applies none and returns "".
C1_FirstMatchWins ==
    Handled =>
        IF \E i \in RuleIdx : Passes(i)
        THEN /\ applied \in RuleIdx
             /\ Passes(applied)
             /\ \A j \in 1..(applied - 1) : ~Passes(j)
             /\ resp = Written(applied)
             /\ mResult = Returned(resultMocked)
        ELSE /\ applied = 0
             /\ resp = NewResponse
             /\ mResult = Returned("")
C1_Witness ==
    /\ Handled
    /\ Len(rules) = 2
    /\ Passes(1)
    /\ Passes(2)
    /\ rules[1].Code # rules[2].Code
    /\ applied = 1
    /\ resp.StatusCode = rules[1].Code
    /\ mResult = Returned(resultMocked)

\* the satisfaction of header rule k of rule i by the handled request
OneHeaderSat(i, k) == matchOneHeader(header, k, HeaderRulesOf(i)[k])
SomeValueMatches(i, k) ==
    \E j \in 1..Len(header[k]) : StringMatchMatch(HeaderRulesOf(i)[k], header[k][j])

\* C7 as stated: without values the header rule is satisfied only if the
\* StringMatch matches when absent; with values it is satisfied if any value
\* satisfies the StringMatch, whatever the absent-value flag.
C7_AnyValueWhateverEmpty ==
    Handled =>
        \A i \in RuleIdx : \A k \in DOMAIN HeaderRulesOf(i) :
            /\ Len(header[k]) = 0 => (OneHeaderSat(i, k) <=> HeaderRulesOf(i)[k].Empty)
            /\ Len(header[k]) > 0 => (OneHeaderSat(i, k) <=> SomeValueMatches(i, k))

\* C7 amended: without values the header rule is satisfied only if the
\* StringMatch matches when absent; with values it is unsatisfied when the
\* StringMatch matches when absent, and otherwise satisfied exactly if some
\* value satisfies the StringMatch.
C7_AnyValueUnlessEmpty ==
    Handled =>
        \A i \in RuleIdx : \A k \in DOMAIN HeaderRulesOf(i) :
            /\ Len(header[k]) = 0 => (OneHeaderSat(i, k) <=> HeaderRulesOf(i)[k].Empty)
            /\ (Len(header[k]) > 0 /\ HeaderRulesOf(i)[k].Empty) => ~OneHeaderSat(i, k)
            /\ (Len(header[k]) > 0 /\ ~HeaderRulesOf(i)[k].Empty)
                => (OneHeaderSat(i, k) <=> SomeValueMatches(i, k))
C7_Witness ==
    /\ Handled
    /\ Len(rules) = 1
    /\ DOMAIN HeaderRulesOf(1) = {"X-A"}
    /\ HeaderRulesOf(1)["X-A"].Empty
    /\ header["X-A"] = <<StrEmpty>>
    /\ SomeValueMatches(1, "X-A")
    /\ matchPath(rules[1], path)
    /\ applied = 0

\* C8: with header rules, the header test passes under matchAllHeaders
\* exactly if every header rule is satisfied, and without matchAllHeaders
\* exactly if at least one is; the order in which the rules are visited does
\* not matter. Without header rules the test passes.
C8_AllOrAny ==
    Handled =>
        \A i \in RuleIdx : \A ord \in OrdersOf(DOMAIN HeaderRulesOf(i)) :
            matchHeader(rules[i], header, ord) =
                IF DOMAIN HeaderRulesOf(i) = {} THEN TRUE
                ELSE IF rules[i].Match.MatchAllHeaders
                THEN \A k \in DOMAIN HeaderRulesOf(i) : OneHeaderSat(i, k)
                ELSE \E k \in DOMAIN HeaderRulesOf(i) : OneHeaderSat(i, k)
C8_Witness ==
    /\ Handled
    /\ Len(rules) = 1
    /\ DOMAIN HeaderRulesOf(1) = MockHeaderNames
    /\ ~rules[1].Match.MatchAllHeaders
    /\ ~OneHeaderSat(1, iterOrder[1][1])
    /\ OneHeaderSat(1, iterOrder[1][2])
    /\ matchPath(rules[1], path)
    /\ applied = 1

\* C9: the path test passes for every path when the rule sets neither path
\* nor pathPrefix; otherwise it passes if the path equals the rule's path;
\* otherwise it passes exactly if pathPrefix is set and the path starts with
\* it. A rule with only path "/a" does not match "/a/b"; one with pathPrefix
\* "/a" does.
StartsWith(s, p) == \E n \in 0..Len(s) : [j \in 1..n |-> s[j]] = p
PathTest(i) ==
    \/ rules[i].Match.Path = StrEmpty /\ rules[i].Match.PathPrefix = StrEmpty
    \/ rules[i].Match.Path = path
    \/ rules[i].Match.PathPrefix # StrEmpty /\ StartsWith(path, rules[i].Match.PathPrefix)
C9_PathTest ==
    Handled =>
        \A i \in RuleIdx :
            /\ matchPath(rules[i], path) <=> PathTest(i)
            /\ (Len(rules) = 1 /\ DOMAIN HeaderRulesOf(i) = {})
                => ((applied = 1) <=> PathTest(i))
            /\ (rules[i].Match.Path = PathA /\ rules[i].Match.PathPrefix = StrEmpty
                /\ path = PathAB) => ~matchPath(rules[i], path)
            /\ (rules[i].Match.PathPrefix = PathA /\ path = PathAB)
                => matchPath(rules[i], path)
C9_Witness ==
    /\ Handled
    /\ Len(rules) = 1
    /\ DOMAIN HeaderRulesOf(1) = {}
    /\ rules[1].Match.Path = PathB
    /\ rules[1].Match.PathPrefix = PathA
    /\ path = PathAB
    /\ applied = 1

\* ========================================================================
\* Properties of Mock.mock with a delay (checked under SpecDelay)
\* ========================================================================
Min(a, b) == IF a <= b THEN a ELSE b
Delayed == applied # 0 /\ rules[applied].delay > 0
\* the first moment, from the entry of the select on, at which the context
\* is cancelled; the deadline when that moment does not come before it
FirstCancel ==
    IF cancelledAt = -1 THEN Deadline
    ELSE IF cancelledAt < waitStart THEN waitStart
    ELSE cancelledAt

\* C6: for a rule with delay > 0, status code, headers and body are written
\* before the wait starts; the wait ends at the earlier of the delay's end
\* and the cancellation; when the cancellation ends it, what was written
\* stays, and Handle returns "mocked".
C6_WriteThenCancellableWait ==
    /\ (mpc = "waiting") =>
        /\ Delayed
        /\ resp = Written(applied)
        /\ ~mResult.returned
        /\ now <= Deadline
    /\ (mpc = "done" /\ applied # 0) =>
        /\ resp = Written(applied)
        /\ mResult = Returned(resultMocked)
    /\ (mpc = "done" /\ Delayed) =>
        /\ wokenBy \in {"timer", "cancel"}
        /\ waitEnd = Min(Deadline, FirstCancel)
        /\ wokenBy = "timer" => waitEnd = Deadline
        /\ wokenBy = "cancel" => (debugNote /\ cancelledAt # -1 /\ cancelledAt <= waitEnd)
    /\ (mpc = "done" /\ ~Delayed) => (wokenBy = "none" /\ waitStart = -1)
C6_Witness ==
    /\ mpc = "done"
    /\ Delayed
    /\ rules[applied].delay = 2
    /\ wokenBy = "cancel"
    /\ waitEnd = waitStart + 1
    /\ cancelledAt = waitEnd
    /\ resp = Written(applied)
    /\ mResult = Returned(resultMocked)

====
